---- MODULE Spec2Model ----
(***************************************************************************)
(* State-machine model of the resilient ingestion layer of                 *)
(* taboo-subscriptions-sync: RateLimiterService, the Whop API client with  *)
(* its retry loop and circuit breaker, and DeadLetterQueueService.         *)
(*                                                                         *)
(* Time is counted in ticks; TicksPerSecond ticks make one second, so a    *)
(* duration of m milliseconds is m * TicksPerSecond / 1000 ticks.          *)
(* JavaScript runs one callback at a time: everything a handler does       *)
(* between two awaits is one action of the model.                          *)
(***************************************************************************)
EXTENDS Integers, Sequences, FiniteSets, TLC

\* ---------------------------------------------------------------- bounds
\* Resolution of the model clock.
TicksPerSecond == 4
\* Value of Date.now() when the process starts (any value larger than every
\* delay of the program: the epoch lies far in the past).
StartTime == 3
\* acquire() calls arrive no later than StartTime + ArrivalWindow.
ArrivalWindow == 2
\* Number of acquire() calls made by anonymous callers of the RateLimiter.
MaxAcquire == 3

\* Largest configured MAX_DLQ_SIZE.
MaxDlqSize == 5
\* Event ids offered to the DeadLetterQueue.
MaxEventIds == 6
\* The DeadLetterQueue is observed for this many ticks.
DlqTicks == 1
\* DLQ_RETENTION_DAYS, as a number of ticks.
retentionTicks == 1
\* DLQ_ALERT_THRESHOLD.
alertThreshold == 3

\* Calls made through the Whop API client.
MaxCalls == 2
\* The API client is observed for this many ticks.
ApiTicks == 8
\* CIRCUIT_BREAKER_RESET_TIMEOUT, as a number of ticks.
resetTimeoutTicks == 2

\* The wait, in seconds, the upstream asks for with a 429.
HintSeconds == 8

\* Largest processedCount a caller saves directly.
MaxSavedCount == 2
\* The CheckpointService is observed for this many ticks.
CheckpointTicks == 1
\* MAX_RECORDS_PER_RUN, MAX_PAGES and MAX_PROCESSING_TIME_MS (in ticks).
maxRecords == 3
maxPages == 2
maxProcessingTicks == 1
\* Largest page the upstream returns.
MaxPageSize == 2
\* The backfill jobs are observed for this many ticks.
BackfillTicks == 2
\* Runs of one job, and the ticks of a run over the API client.
MaxRuns == 2
JobTicks == 2

\* ------------------------------------------------------- program constants
\* WHOP_API_REQUESTS_PER_SECOND, default 2.
requestsPerSecond == 2
\* maxConsecutiveRateLimits.
maxConsecutiveRateLimits == 3
\* The pause is min(minDelayBetweenRequests * 5, 10000 ms).
PauseFactor == 5
MaxPauseSeconds == 10
\* archiveOldEvents removes floor(length * 0.2) events.
ArchivePercent == 20
\* WHOP_API_MAX_RETRIES, default 3.
maxRetries == 3
\* CIRCUIT_BREAKER_ERROR_THRESHOLD, default 5 (percent).
errorThresholdPercentage == 5
\* WHOP_API_RETRY_BACKOFF_BASE_MS, default 1000 ms.
retryBackoffBaseSeconds == 1
\* exponentialBackoff: baseDelayMs = 1000 and maxDelayMs = 30000 by default.
ExponentialBaseSeconds == 1
ExponentialMaxSeconds == 30
\* parseRetryAfter falls back to 5000 ms.
DefaultRetryAfterSeconds == 5
\* HttpStatus.FORBIDDEN
ForbiddenStatus == 403
\* retryAfter (seconds) of a rejected analysis: breaker open, store full.
BreakerOpenRetryAfter == 60
DlqFullRetryAfter == 300

Max(a, b) == IF a >= b THEN a ELSE b
Min(a, b) == IF a <= b THEN a ELSE b
Range(s) == {s[i] : i \in DOMAIN s}

\* this.minDelayBetweenRequests = 1000 / this.requestsPerSecond, in ticks.
minDelayBetweenRequests == TicksPerSecond \div requestsPerSecond

\* backoffDelay of onRateLimitDetected, in ticks.
PauseDelay == Min(minDelayBetweenRequests * PauseFactor, MaxPauseSeconds * TicksPerSecond)

LastArrival == StartTime + ArrivalWindow
\* Every request that arrived by LastArrival has been released by MaxTime.
MaxTime == LastArrival + MaxAcquire * PauseDelay

VARIABLES
    now,                    \* Date.now()
    \* RateLimiterService
    requestQueue,           \* tickets (the queued resolve callbacks), head first
    isProcessing,
    lastRequestTime,
    consecutiveRateLimits,
    pauseUntil,
    current,                \* the request processQueue shifted and holds across its await (0: none)
    wakeAt,                 \* when the delay() processQueue awaits is due
    \* observation of the RateLimiter
    nextTicket,             \* tickets are numbered in arrival order
    released,               \* tickets in the order their resolve() was called
    lastReleaseAt,          \* time of the latest resolve() (-1: none yet)
    pauseSet,               \* the latest pause deadline onRateLimitDetected set (0: none yet)
    \* DeadLetterQueueService
    dlq,                    \* FailedEvent records, in array order
    maxSize,                \* MAX_DLQ_SIZE
    nextEventId,            \* the next event id not offered to the store yet
    alertEmitted,           \* the latest operation on the store emitted a 'DLQ Alert'
    removeLog,              \* the removeEvent call the latest operation on the store was
    runs,                   \* the two requests for backfillMemberships in flight
    \* WhopApiClientService and its circuit breaker
    breaker,                \* the 'whop-api' breaker: state, rolling counters, reset timer, trial
    calls,                  \* per call: where it stands, its attempt, its limiter ticket
    breakerCreated,         \* the 'whop-api' breaker is in CircuitBreakerService.breakers
    \* GracefulDegradationService, CheckpointService, WhopBackfillController
    gate,                   \* the latest decision of the degradation gate
    checkpoints,            \* CheckpointService.checkpoints: jobType -> Checkpoint or NoCheckpoint
    cpLog,                  \* the latest saveCheckpoint / clearCheckpoint call
    jobs,                   \* per jobType: the backfill run of that job
    \* ProviderRegistry and the fan-out over the active providers
    providers,              \* provider name -> enabled
    fanout,                 \* the fan-out in progress or last completed
    \* the parties awaiting a job or a call
    callers                 \* which call a job awaits; who still waits for a job, for a call

rlVars == <<requestQueue, isProcessing, lastRequestTime, consecutiveRateLimits,
            pauseUntil, current, wakeAt>>
rlObs == <<nextTicket, released, lastReleaseAt>>
dlqVars == <<dlq, maxSize, nextEventId, alertEmitted>>
apiVars == <<breaker, calls>>
gateVars == <<gate>>
cpVars == <<checkpoints, cpLog, jobs>>
fanVars == <<providers, fanout>>
vars == <<now, rlVars, rlObs, pauseSet, dlqVars, apiVars, breakerCreated, gateVars, cpVars,
          fanVars, callers, removeLog, runs>>

\* ------------------------------------------------------------ RateLimiter

WaitForBackoff(t, pause) == Max(0, pause - t)

WaitForSpacing(t, last) == Max(0, minDelayBetweenRequests - (t - last))

DelayNeeded_NoSpacing(t, last, pause) == WaitForBackoff(t, pause)
DelayNeeded(t, last, pause) == Max(WaitForBackoff(t, pause), WaitForSpacing(t, last))

Enqueue_Front(q, t) == <<t>> \o q
Enqueue(q, t) == Append(q, t)

\* The state processQueue leaves when its while loop ends.
LoopExit_FlagStuck(last, pause, rel, relAt) ==
    [queue |-> <<>>, isProcessing |-> TRUE, current |-> 0, wakeAt |-> 0,
     last |-> last, pause |-> pause, rel |-> rel, relAt |-> relAt]
LoopExit(last, pause, rel, relAt) ==
    [queue |-> <<>>, isProcessing |-> FALSE, current |-> 0, wakeAt |-> 0,
     last |-> last, pause |-> pause, rel |-> rel, relAt |-> relAt]

\* The while loop of processQueue, run at time `now` from the top of an
\* iteration until it suspends in delay() or the queue is empty.
RECURSIVE LoopFrom(_, _, _, _, _)
LoopFrom(q, last, pause, rel, relAt) ==
    IF q = <<>> THEN LoopExit(last, pause, rel, relAt)
    ELSE LET d == DelayNeeded(now, last, pause) IN
         IF d > 0
         THEN [queue |-> Tail(q), isProcessing |-> TRUE, current |-> Head(q),
               wakeAt |-> now + d, last |-> last, pause |-> pause,
               rel |-> rel, relAt |-> relAt]
         ELSE LoopFrom(Tail(q), now, 0, Append(rel, Head(q)), now)

SetLimiter(r) ==
    /\ requestQueue' = r.queue
    /\ isProcessing' = r.isProcessing
    /\ current' = r.current
    /\ wakeAt' = r.wakeAt
    /\ lastRequestTime' = r.last
    /\ pauseUntil' = r.pause
    /\ released' = r.rel
    /\ lastReleaseAt' = r.relAt

AcquireTicket_Restart(t) ==
    SetLimiter(LoopFrom(Enqueue(requestQueue, t), lastRequestTime, pauseUntil, released,
                        lastReleaseAt))
\* acquire(): push, then processQueue(), which returns at once when a loop runs.
AcquireTicket(t) ==
    LET q == Enqueue(requestQueue, t) IN
    IF isProcessing
    THEN /\ requestQueue' = q
         /\ UNCHANGED <<isProcessing, current, wakeAt, lastRequestTime, pauseUntil,
                        released, lastReleaseAt>>
    ELSE SetLimiter(LoopFrom(q, lastRequestTime, pauseUntil, released, lastReleaseAt))

\* The rest of processQueue after its delay(): release the held request and
\* go round the loop.
ResumeLoop ==
    SetLimiter(LoopFrom(requestQueue, now, 0, Append(released, current), now))

TimerDue == isProcessing /\ current # 0 /\ now >= wakeAt

RateLimitCount(c) == IF c + 1 >= maxConsecutiveRateLimits THEN 0 ELSE c + 1
RateLimitPause_Stacked(c, pause, t) ==
    IF c + 1 >= maxConsecutiveRateLimits THEN Max(pause, t) + PauseDelay ELSE pause
RateLimitPause(c, pause, t) ==
    IF c + 1 >= maxConsecutiveRateLimits THEN Max(pause, t + PauseDelay) ELSE pause

SuccessCount_Reset(c) == 0
SuccessCount(c) == IF c > 0 THEN Max(0, c - 1) ELSE c

\* The deadline of the pause onRateLimitDetected sets, kept for observation
\* (processQueue clears pauseUntil, not this).
PauseDeadline(c, pause, set, t) ==
    IF c + 1 >= maxConsecutiveRateLimits THEN RateLimitPause(c, pause, t) ELSE set

\* ------------------------------------------------- circuit breaker
\* The breaker is an opossum CircuitBreaker, a library outside this
\* repository: its state machine is the one the specification gives.
Calls == 1..MaxCalls

InitBreaker ==
    [state |-> "closed", fires |-> 0, failures |-> 0, openedAt |-> 0,
     trialAvailable |-> FALSE, trialCall |-> 0]

\* A call passes while closed, and one trial call passes while halfOpen.
BreakerAdmits(b) == b.state = "closed" \/ (b.state = "halfOpen" /\ b.trialAvailable)

\* An admitted call is counted; in halfOpen it is the trial.
BreakerFire(b, c) ==
    IF b.state = "halfOpen"
    THEN [b EXCEPT !.fires = @ + 1, !.trialAvailable = FALSE, !.trialCall = c]
    ELSE [b EXCEPT !.fires = @ + 1]

\* The trial succeeding closes the breaker and resets its statistics.
BreakerSuccess(b, c) ==
    IF b.state = "halfOpen" /\ b.trialCall = c
    THEN [InitBreaker EXCEPT !.openedAt = b.openedAt]
    ELSE b

\* A failure is counted; a closed breaker opens when the failure percentage
\* exceeds the threshold, a halfOpen one when its trial fails.
BreakerFailure(b, c, t) ==
    LET f == b.failures + 1 IN
    IF \/ (b.state = "closed" /\ f * 100 > errorThresholdPercentage * b.fires)
       \/ (b.state = "halfOpen" /\ b.trialCall = c)
    THEN [b EXCEPT !.failures = f, !.state = "open", !.openedAt = t,
                   !.trialAvailable = FALSE, !.trialCall = 0]
    ELSE [b EXCEPT !.failures = f]

\* getCircuitBreakerState(name).state
BreakerState == IF breaker.state = "open" THEN "open"
                ELSE IF breaker.state = "halfOpen" THEN "halfOpen" ELSE "closed"

\* -------------------------------------------------------- API client
\* What the upstream answers.
Statuses == {200, 429, 500}

\* What a 429 of the upstream says about when to come back: nothing, a
\* Retry-After header in seconds, a Retry-After header holding an HTTP date
\* that many seconds ahead, or 'try again in N seconds' in its message.
HintKinds == {"none", "seconds", "date", "message"}
NoHint == [kind |-> "none", seconds |-> 0]
UpstreamHints == {NoHint} \cup {[kind |-> k, seconds |-> HintSeconds] : k \in HintKinds \ {"none"}}

\* The methods a request is made with.
Methods == {"GET", "get", "POST", "post"}
\* method.toUpperCase()
ToUpperCase(m) ==
    CASE m = "get" -> "GET"
      [] m = "post" -> "POST"
      [] OTHER -> m

IsGet_Any(m) == TRUE
\* upperMethod !== 'GET' is refused
IsGet(m) == ToUpperCase(m) = "GET"

\* The error of the HTTP transport for an answer of the upstream: its
\* response carries the status, the headers and the body.
TransportError(status, hint) ==
    [status |-> status,
     retryAfterHeader |-> IF hint.kind \in {"seconds", "date"} THEN hint ELSE NoHint,
     tryAgainIn |-> IF hint.kind = "message" THEN {hint.seconds} ELSE {}]

\* The HttpException makeRequest throws for a transport error: it is built
\* from the status and a message chosen by status; the upstream message goes
\* into the body's `error`, the headers of the response are not copied, and
\* the exception has no response.data.
WrapError(e) ==
    [status |-> e.status, retryAfterHeader |-> NoHint, tryAgainIn |-> {}]

\* The HttpException of the read-only policy.
ForbiddenError == [status |-> ForbiddenStatus, retryAfterHeader |-> NoHint, tryAgainIn |-> {}]

NoError == [status |-> 0, retryAfterHeader |-> NoHint, tryAgainIn |-> {}]

\* parseRetryAfter(retryAfter, errorMessage), in ticks: the message pattern
\* first, then the header as seconds or as a date, 5 s when there is none.
ParseRetryAfter(header, tryAgainIn) ==
    IF tryAgainIn # {} THEN (CHOOSE n \in tryAgainIn : TRUE) * TicksPerSecond
    ELSE IF header.kind = "seconds" THEN header.seconds * TicksPerSecond
    ELSE IF header.kind = "date"
         THEN Max(header.seconds * TicksPerSecond, DefaultRetryAfterSeconds * TicksPerSecond)
    ELSE DefaultRetryAfterSeconds * TicksPerSecond

RECURSIVE Pow2(_)
Pow2(n) == IF n = 0 THEN 1 ELSE 2 * Pow2(n - 1)

\* this.retryBackoffBaseMs * Math.pow(2, attempt), in ticks.
BackoffDelay_Linear(a) == retryBackoffBaseSeconds * TicksPerSecond * (a + 1)
BackoffDelay(a) == retryBackoffBaseSeconds * TicksPerSecond * Pow2(a)

\* exponentialBackoff(attempt, baseDelayMs = 1000, maxDelayMs = 30000) of
\* delay.util, in ticks.
ExponentialBackoff(a) ==
    Min(ExponentialBaseSeconds * TicksPerSecond * Pow2(a), ExponentialMaxSeconds * TicksPerSecond)

\* waitTime of makeRequestWithRetry for the error it caught.
WaitTime(e, a) == Max(ParseRetryAfter(e.retryAfterHeader, e.tryAgainIn), BackoffDelay(a))

InitCall ==
    [pc |-> "new", method |-> "GET", attempt |-> 0, ticket |-> 0, httpCount |-> 0,
     lastStatus |-> 0, firedIn |-> "none", hint |-> NoHint, backoffDelay |-> 0,
     waitTime |-> 0, error |-> NoError,
     \* observation: the 429 answers the call received, and the
     \* onRateLimitDetected() and onSuccess() made on its behalf
     rejections |-> 0, detected |-> 0, successes |-> 0]

\* fire() of call c was rejected by the per-call timeout of the breaker; the
\* breaker counted that as a failure and takes no later result of the call.
TimedOut(c) == callers.fire[c] = "timedOut"

\* The callers whose acquire() has resolved.
Resumed(cs, rel) == {d \in Calls : cs[d].pc = "queued" /\ cs[d].ticket \in Range(rel)}

Dispatched_Unreleased(cs, rel) ==
    [d \in Calls |->
        IF cs[d].pc = "queued"
        THEN [cs[d] EXCEPT !.pc = "inflight", !.httpCount = @ + 1]
        ELSE cs[d]]
\* makeRequest after its await of acquire(): a caller whose ticket was
\* released sends its request when the method is GET, and otherwise throws
\* Forbidden, which makeRequestWithRetry rethrows.
Dispatched(cs, rel) ==
    [d \in Calls |->
        IF d \in Resumed(cs, rel)
        THEN IF IsGet(cs[d].method)
             THEN [cs[d] EXCEPT !.pc = "inflight", !.httpCount = @ + 1]
             ELSE [cs[d] EXCEPT !.pc = "failed", !.error = ForbiddenError]
        ELSE cs[d]]

\* The breaker after the failures of the callers in S, in ticket order.
RECURSIVE BreakerFailures(_, _, _)
BreakerFailures(b, cs, S) ==
    IF S = {} THEN b
    ELSE LET d == CHOOSE x \in S : \A y \in S : cs[x].ticket <= cs[y].ticket
         IN BreakerFailures(BreakerFailure(b, d, now), cs, S \ {d})

\* The calls and the breaker once the callers released to `rel` have run on.
Resume(b, cs, rel) ==
    /\ calls' = Dispatched(cs, rel)
    /\ breaker' = BreakerFailures(b, cs, {d \in Calls : cs[d].pc = "queued"
                                                       /\ Dispatched(cs, rel)[d].pc = "failed"
                                                       /\ ~TimedOut(d)})

\* makeRequestWithRetry(..., attempt = a) up to the await in makeRequest:
\* acquire() a slot of the shared RateLimiter.
MakeRequest(b, c, a, firedIn) ==
    /\ AcquireTicket(nextTicket)
    /\ nextTicket' = nextTicket + 1
    /\ Resume(b, [calls EXCEPT ![c].pc = "queued", ![c].attempt = a,
                               ![c].ticket = nextTicket, ![c].firedIn = firedIn,
                               ![c].hint = NoHint, ![c].backoffDelay = 0,
                               ![c].waitTime = 0],
              released')

\* getMemberships .. getPlan with the breaker taken out of the path.
ApiCall_NoBreaker(c) ==
    /\ calls[c].pc = "new"
    /\ breakerCreated' = TRUE
    /\ MakeRequest(BreakerFire(breaker, c), c, 0, BreakerState)
    /\ UNCHANGED <<now, consecutiveRateLimits, dlqVars, gateVars, cpVars, pauseSet, fanVars, callers, removeLog, runs>>

\* getMemberships .. getPlan: getCircuitBreaker().fire([...]), which runs
\* makeRequestWithRetry only when the breaker admits the call.
Fire(c) ==
    /\ calls[c].pc = "new"
    /\ breakerCreated' = TRUE
    /\ IF BreakerAdmits(breaker)
       THEN MakeRequest(BreakerFire(breaker, c), c, 0, BreakerState)
       ELSE /\ calls' = [calls EXCEPT ![c].pc = "rejected", ![c].firedIn = BreakerState]
            /\ breaker' = breaker
            /\ UNCHANGED <<requestQueue, isProcessing, lastRequestTime, pauseUntil,
                           current, wakeAt, rlObs>>

\* A call of the client on its own.
ApiCall(c) ==
    /\ Fire(c)
    /\ UNCHANGED <<now, consecutiveRateLimits, dlqVars, gateVars, cpVars, pauseSet, fanVars, callers, removeLog, runs>>

ShouldRetry_OneFewer(status, a) == status = 429 /\ a < maxRetries - 1
ShouldRetry_OneMore(status, a) == status = 429 /\ a <= maxRetries
ShouldRetry_AnyFailure(status, a) == a < maxRetries
\* statusCode === 429 && attempt < this.maxRetries
ShouldRetry(status, a) == status = 429 /\ a < maxRetries

\* The upstream answers the request of call c.
HttpResponse(c) ==
    /\ calls[c].pc = "inflight"
    /\ \E status \in Statuses, hint \in UpstreamHints :
        /\ (status # 429 => hint = NoHint)
        /\ IF status = 200
           THEN \* makeRequest: onSuccess(), return; the breaker sees a success
                /\ consecutiveRateLimits' = SuccessCount(consecutiveRateLimits)
                /\ pauseUntil' = pauseUntil
                /\ pauseSet' = pauseSet
                /\ calls' = [calls EXCEPT ![c].pc = "succeeded", ![c].lastStatus = status,
                                          ![c].successes = @ + 1]
                /\ breaker' = IF TimedOut(c) THEN breaker ELSE BreakerSuccess(breaker, c)
           ELSE LET e == WrapError(TransportError(status, hint)) IN
                IF ShouldRetry(e.status, calls[c].attempt)
                THEN \* makeRequestWithRetry: onRateLimitDetected(), then the backoff wait
                     /\ consecutiveRateLimits' = RateLimitCount(consecutiveRateLimits)
                     /\ pauseUntil' = RateLimitPause(consecutiveRateLimits, pauseUntil, now)
                     /\ pauseSet' = PauseDeadline(consecutiveRateLimits, pauseUntil, pauseSet, now)
                     /\ calls' = [calls EXCEPT ![c].pc = "backoff", ![c].lastStatus = status,
                                               ![c].rejections = @ + 1,
                                               ![c].detected = @ + 1,
                                               ![c].hint = hint,
                                               ![c].backoffDelay = BackoffDelay(calls[c].attempt),
                                               ![c].waitTime = WaitTime(e, calls[c].attempt)]
                     /\ breaker' = breaker
                ELSE \* throw error: the breaker sees a failure
                     /\ UNCHANGED <<consecutiveRateLimits, pauseUntil, pauseSet>>
                     /\ calls' = [calls EXCEPT ![c].pc = "failed", ![c].lastStatus = status,
                                               ![c].rejections =
                                                   IF status = 429 THEN @ + 1 ELSE @,
                                               ![c].error = e]
                     /\ breaker' = IF TimedOut(c) THEN breaker
                                    ELSE BreakerFailure(breaker, c, now)
    /\ UNCHANGED <<now, requestQueue, isProcessing, lastRequestTime, current, wakeAt,
                   rlObs, dlqVars, breakerCreated, gateVars, cpVars, fanVars, callers, removeLog, runs>>

\* A retry that goes through fire() again.
BackoffEnd_Refire(c) ==
    /\ calls[c].pc = "backoff"
    /\ MakeRequest(BreakerFire(breaker, c), c, calls[c].attempt + 1, calls[c].firedIn)
    /\ UNCHANGED <<now, consecutiveRateLimits, dlqVars, breakerCreated, gateVars, cpVars, pauseSet, fanVars, callers, removeLog, runs>>

\* delayWithJitter(waitTime, 30) is over (the jitter is random: the wait may
\* end at any later step), then makeRequestWithRetry(..., attempt + 1).
BackoffEnd(c) ==
    /\ calls[c].pc = "backoff"
    /\ MakeRequest(breaker, c, calls[c].attempt + 1, calls[c].firedIn)
    /\ UNCHANGED <<now, consecutiveRateLimits, dlqVars, breakerCreated, gateVars, cpVars, pauseSet, fanVars, callers, removeLog, runs>>

\* resetTimeout after the breaker opened it lets one trial call through.
BreakerReset ==
    /\ breaker.state = "open"
    /\ now >= breaker.openedAt + resetTimeoutTicks
    /\ breaker' = [breaker EXCEPT !.state = "halfOpen", !.trialAvailable = TRUE]
    /\ UNCHANGED <<now, rlVars, rlObs, dlqVars, breakerCreated, gateVars, cpVars, calls, pauseSet, fanVars, callers, removeLog, runs>>

ApiMaxTime == StartTime + ApiTicks

ApiTick ==
    /\ now < ApiMaxTime
    /\ now' = now + 1
    /\ UNCHANGED <<rlVars, rlObs, dlqVars, breakerCreated, gateVars, cpVars, apiVars, pauseSet, fanVars, callers, removeLog, runs>>

InitApi ==
    /\ breaker = InitBreaker
    /\ calls = [c \in Calls |-> InitCall]

\* ---- actions of the RateLimiter on its own
Acquire ==
    /\ nextTicket <= MaxAcquire
    /\ now <= LastArrival
    /\ AcquireTicket(nextTicket)
    /\ nextTicket' = nextTicket + 1
    /\ UNCHANGED <<now, consecutiveRateLimits, dlqVars, breakerCreated, gateVars, cpVars, apiVars, pauseSet, fanVars, callers, removeLog, runs>>

\* The timer of processQueue fires; the callers it releases go on, in the
\* same turn of the event loop, to send their HTTP request.
LoopWake ==
    /\ TimerDue
    /\ ResumeLoop
    /\ Resume(breaker, calls, released')
    /\ UNCHANGED <<now, consecutiveRateLimits, nextTicket, dlqVars, breakerCreated, gateVars, cpVars, pauseSet, fanVars, callers, removeLog, runs>>

OnRateLimitDetected ==
    /\ consecutiveRateLimits' = RateLimitCount(consecutiveRateLimits)
    /\ pauseUntil' = RateLimitPause(consecutiveRateLimits, pauseUntil, now)
    /\ pauseSet' = PauseDeadline(consecutiveRateLimits, pauseUntil, pauseSet, now)
    /\ UNCHANGED <<now, requestQueue, isProcessing, lastRequestTime, current, wakeAt, rlObs,
                   dlqVars, breakerCreated, gateVars, cpVars, apiVars, fanVars, callers, removeLog, runs>>

OnSuccess ==
    /\ consecutiveRateLimits' = SuccessCount(consecutiveRateLimits)
    /\ UNCHANGED <<now, requestQueue, isProcessing, lastRequestTime, pauseUntil,
                   current, wakeAt, rlObs, dlqVars, breakerCreated, gateVars, cpVars, apiVars, pauseSet, fanVars, callers, removeLog, runs>>

Tick ==
    /\ now < MaxTime
    /\ now' = now + 1
    /\ UNCHANGED <<rlVars, rlObs, dlqVars, breakerCreated, gateVars, cpVars, apiVars, pauseSet, fanVars, callers, removeLog, runs>>

\* Time passes only when no timer is due: timers fire on time.
TickOnTime ==
    /\ ~TimerDue
    /\ Tick

\* ------------------------------------------------------ DeadLetterQueue
\* A FailedEvent; eventType and payload are stored once and never read back
\* or updated, and are left out.
EventIds == 1..MaxEventIds
\* The (error, retryCount) pairs a caller reports.
FailureReports == {<<"e1", 0>>, <<"e2", 1>>}

Ids(q) == {q[i].id : i \in DOMAIN q}

\* this.dlq.find((e) => e.id === eventId): the index of the first match, 0 if none.
FindIndex(q, id) ==
    IF id \in Ids(q) THEN CHOOSE i \in DOMAIN q : q[i].id = id /\ \A j \in 1..(i - 1) : q[j].id # id
    ELSE 0

\* Math.floor(this.dlq.length * 0.2)
ToRemove(q) == (Len(q) * ArchivePercent) \div 100

\* this.dlq.splice(0, toRemove)
ArchiveOldEvents(q) == SubSeq(q, ToRemove(q) + 1, Len(q))

NewEvent(id, err, retry, t) ==
    [id |-> id, error |-> err, timestamp |-> t, retryCount |-> retry]

UpdateExisting_Duplicate(q, i, err, retry, t) ==
    Append(q, NewEvent(q[i].id, err, retry, t))
UpdateExisting(q, i, err, retry, t) ==
    [q EXCEPT ![i] = [@ EXCEPT !.retryCount = retry, !.error = err, !.timestamp = t]]

\* addFailedEvent at time t with MAX_DLQ_SIZE = size: the new array.
AddFailedEvent(q, size, id, err, retry, t) ==
    LET i == FindIndex(q, id) IN
    IF i # 0 THEN UpdateExisting(q, i, err, retry, t)
    ELSE Append(IF Len(q) >= size THEN ArchiveOldEvents(q) ELSE q,
                NewEvent(id, err, retry, t))

RemoveEvent_Head(q, id) == IF FindIndex(q, id) # 0 THEN Tail(q) ELSE q
\* removeEvent: splice(index, 1) of the first match.
RemoveEvent(q, id) ==
    LET i == FindIndex(q, id) IN
    IF i # 0 THEN SubSeq(q, 1, i - 1) \o SubSeq(q, i + 1, Len(q)) ELSE q

RemoveEventResult(q, id) == FindIndex(q, id) # 0

\* No removeEvent call.
NoRemove == [id |-> 0, result |-> FALSE]

IsFresh(e, t) == e.timestamp > t - retentionTicks

\* cleanupOldEvents at time t.
CleanupOldEvents(q, t) == SelectSeq(q, LAMBDA e : IsFresh(e, t))

GetSize == Len(dlq)

\* addFailedEvent calls this.alert(): only on the path that pushes a new
\* event, when the length after the push has reached alertThreshold.
Alerts(q, size, id) ==
    /\ FindIndex(q, id) = 0
    /\ Len(IF Len(q) >= size THEN ArchiveOldEvents(q) ELSE q) + 1 >= alertThreshold

RECURSIVE Reverse(_)
Reverse(q) == IF q = <<>> THEN <<>> ELSE Append(Reverse(Tail(q)), Head(q))

\* getFailedEvents(limit): [...this.dlq].reverse(), cut to `limit` entries
\* when a limit is given (0 stands for none).
GetFailedEvents(q, limit) ==
    LET events == Reverse(q) IN
    IF limit # 0 THEN SubSeq(events, 1, Min(limit, Len(events))) ELSE events

\* The ids a caller offers: one already stored, or a new one. A removed or
\* evicted id has left no trace in the store, so a new id is the next unused.
OfferedIds == Ids(dlq) \cup (IF nextEventId <= MaxEventIds THEN {nextEventId} ELSE {})

DlqAdd ==
    /\ \E id \in OfferedIds, rep \in FailureReports :
          /\ dlq' = AddFailedEvent(dlq, maxSize, id, rep[1], rep[2], now)
          /\ alertEmitted' = Alerts(dlq, maxSize, id)
          /\ nextEventId' = IF id = nextEventId THEN nextEventId + 1 ELSE nextEventId
    /\ removeLog' = NoRemove
    /\ UNCHANGED <<now, maxSize, rlVars, rlObs, apiVars, breakerCreated, gateVars, cpVars, pauseSet, fanVars, callers, runs>>

DlqRemove ==
    /\ \E id \in EventIds :
          /\ dlq' = RemoveEvent(dlq, id)
          /\ removeLog' = [id |-> id, result |-> RemoveEventResult(dlq, id)]
    /\ alertEmitted' = FALSE
    /\ UNCHANGED <<now, maxSize, nextEventId, rlVars, rlObs, apiVars, breakerCreated, gateVars, cpVars, pauseSet, fanVars, callers, runs>>

HandleCleanup ==
    /\ dlq' = CleanupOldEvents(dlq, now)
    /\ alertEmitted' = FALSE
    /\ removeLog' = NoRemove
    /\ UNCHANGED <<now, maxSize, nextEventId, rlVars, rlObs, apiVars, breakerCreated, gateVars, cpVars, pauseSet, fanVars, callers, runs>>

DlqMaxTime == StartTime + DlqTicks

DlqTick ==
    /\ now < DlqMaxTime
    /\ now' = now + 1
    /\ UNCHANGED <<rlVars, rlObs, dlqVars, breakerCreated, gateVars, cpVars, apiVars, pauseSet, fanVars, callers, removeLog, runs>>

InitDlq(sizes) ==
    /\ dlq = <<>>
    /\ alertEmitted = FALSE
    /\ removeLog = NoRemove
    /\ nextEventId = 1
    /\ maxSize \in sizes

\* ------------------------------------------------ GracefulDegradation
\* getCircuitBreakerState('whop-api')?.state: nothing for a breaker that was
\* never created.
WhopState == IF breakerCreated THEN BreakerState ELSE "none"

\* A decision {allowed, retryAfter?}: retryAfter is a set, empty when the
\* decision carries no hint.
Decision(allowed, retryAfter) == [allowed |-> allowed, retryAfter |-> retryAfter]

CanProcessAnalysis_DlqFirst(state, dlqSize, maxDlqSize) ==
    IF dlqSize >= maxDlqSize THEN Decision(FALSE, {DlqFullRetryAfter})
    ELSE IF state = "open" THEN Decision(FALSE, {BreakerOpenRetryAfter})
    ELSE Decision(TRUE, {})
CanProcessAnalysis_IgnoreDlq(state, dlqSize, maxDlqSize) ==
    IF state = "open" THEN Decision(FALSE, {BreakerOpenRetryAfter})
    ELSE Decision(TRUE, {})
CanProcessAnalysis(state, dlqSize, maxDlqSize) ==
    IF state = "open" THEN Decision(FALSE, {BreakerOpenRetryAfter})
    ELSE IF dlqSize >= maxDlqSize THEN Decision(FALSE, {DlqFullRetryAfter})
    ELSE Decision(TRUE, {})

CanProcessBackfill_Always(state, dlqSize, maxDlqSize) == Decision(TRUE, {})
CanProcessBackfill_DlqToo(state, dlqSize, maxDlqSize) ==
    IF state = "open" \/ dlqSize >= maxDlqSize THEN Decision(FALSE, {})
    ELSE Decision(TRUE, {})
\* canProcessBackfill reads the breaker only; the store is at hand
\* (this.dlqService) and not consulted.
CanProcessBackfill(state, dlqSize, maxDlqSize) ==
    IF state = "open" THEN Decision(FALSE, {}) ELSE Decision(TRUE, {})

NoGate == [operation |-> "none", result |-> Decision(TRUE, {}), level |-> "none"]

\* A caller asks canProcessAnalysis().
AnalysisGate ==
    /\ gate' = [NoGate EXCEPT !.operation = "analysis",
                               !.result = CanProcessAnalysis(WhopState, GetSize, maxSize)]
    /\ UNCHANGED <<now, rlVars, rlObs, dlqVars, apiVars, breakerCreated, cpVars, pauseSet, fanVars, callers, removeLog, runs>>

\* A caller asks canProcessBackfill().
BackfillGate ==
    /\ gate' = [NoGate EXCEPT !.operation = "backfill",
                               !.result = CanProcessBackfill(WhopState, GetSize, maxSize)]
    /\ UNCHANGED <<now, rlVars, rlObs, dlqVars, apiVars, breakerCreated, cpVars, pauseSet, fanVars, callers, removeLog, runs>>

GetDegradationLevel_SizeOnly(state, dlqSize, maxDlqSize) ==
    IF dlqSize >= alertThreshold THEN "critical"
    ELSE IF 2 * dlqSize > maxDlqSize THEN "degraded"
    ELSE "normal"
\* getDegradationLevel(): dlqSize > maxDlqSize * 0.5 is 2 * dlqSize > maxDlqSize.
GetDegradationLevel(state, dlqSize, maxDlqSize) ==
    IF dlqSize >= alertThreshold \/ state = "open" THEN "critical"
    ELSE IF 2 * dlqSize > maxDlqSize \/ state = "halfOpen" THEN "degraded"
    ELSE "normal"

\* A caller asks getDegradationLevel().
DegradationLevel ==
    /\ gate' = [NoGate EXCEPT !.operation = "level",
                               !.level = GetDegradationLevel(WhopState, GetSize, maxSize)]
    /\ UNCHANGED <<now, rlVars, rlObs, dlqVars, apiVars, breakerCreated, cpVars, pauseSet, fanVars, callers, removeLog, runs>>

\* The breaker as earlier calls left it.
BreakersLeft ==
    { InitBreaker,
      [InitBreaker EXCEPT !.state = "open", !.fires = 1, !.failures = 1,
                          !.openedAt = StartTime],
      [InitBreaker EXCEPT !.state = "halfOpen", !.fires = 1, !.failures = 1,
                          !.openedAt = StartTime - resetTimeoutTicks,
                          !.trialAvailable = TRUE] }

InitBreakerLeft ==
    /\ breakerCreated \in BOOLEAN
    /\ breaker \in (IF breakerCreated THEN BreakersLeft ELSE {InitBreaker})
    /\ calls = [c \in Calls |-> InitCall]

\* ------------------------------------------------------ CheckpointService
JobTypes == {"backfill-memberships", "backfill-payments"}

\* An empty Map.
NoCheckpoints == [j \in {} |-> {}]

Checkpoint(jobType, lastProcessedId, processedCount, t) ==
    [jobType |-> jobType, lastProcessedId |-> lastProcessedId,
     processedCount |-> processedCount, timestamp |-> t]

\* this.checkpoints.set(jobType, checkpoint)
SaveCheckpoint(cp, jobType, lastProcessedId, processedCount, t) ==
    [j \in DOMAIN cp \cup {jobType} |->
        IF j = jobType THEN Checkpoint(jobType, lastProcessedId, processedCount, t)
        ELSE cp[j]]

\* this.checkpoints.get(jobType) || null: a set, empty for null.
GetLastCheckpoint(cp, jobType) == IF jobType \in DOMAIN cp THEN {cp[jobType]} ELSE {}

ClearCheckpoint_All(cp, jobType) == NoCheckpoints
\* this.checkpoints.delete(jobType)
ClearCheckpoint(cp, jobType) == [j \in DOMAIN cp \ {jobType} |-> cp[j]]

\* What the latest call for a jobType was.
NoCall == [op |-> "none", lastProcessedId |-> "", processedCount |-> 0]
SaveCall(lastProcessedId, processedCount) ==
    [op |-> "save", lastProcessedId |-> lastProcessedId, processedCount |-> processedCount]
ClearCall == [op |-> "clear", lastProcessedId |-> "", processedCount |-> 0]

\* The ids of the last record of a page; a record may come without an id.
RecordIds == {"", "m1"}
\* memberships[memberships.length - 1]?.id || 'unknown'
LastIdOf(id) == IF id = "" THEN "unknown" ELSE id

\* A caller saves a checkpoint.
SaveCheckpointCall ==
    /\ \E j \in JobTypes, id \in RecordIds, n \in 0..MaxSavedCount :
          /\ checkpoints' = SaveCheckpoint(checkpoints, j, LastIdOf(id), n, now)
          /\ cpLog' = [cpLog EXCEPT ![j] = SaveCall(LastIdOf(id), n)]
    /\ UNCHANGED <<now, rlVars, rlObs, dlqVars, apiVars, breakerCreated, gateVars, jobs, pauseSet, fanVars, callers, removeLog, runs>>

\* A caller clears a checkpoint.
ClearCheckpointCall ==
    /\ \E j \in JobTypes :
          /\ checkpoints' = ClearCheckpoint(checkpoints, j)
          /\ cpLog' = [cpLog EXCEPT ![j] = ClearCall]
    /\ UNCHANGED <<now, rlVars, rlObs, dlqVars, apiVars, breakerCreated, gateVars, jobs, pauseSet, fanVars, callers, removeLog, runs>>

CheckpointMaxTime == StartTime + CheckpointTicks

CheckpointTick ==
    /\ now < CheckpointMaxTime
    /\ now' = now + 1
    /\ UNCHANGED <<rlVars, rlObs, dlqVars, apiVars, breakerCreated, gateVars, cpVars, pauseSet, fanVars, callers, removeLog, runs>>

\* ------------------------------------------------- WhopBackfillController
\* The run of one job: backfillMemberships or backfillPayments. A job is
\* started again only after its previous run returned.
InitJob ==
    [pc |-> "idle", processedCount |-> 0, page |-> 1, startTime |-> 0,
     exit |-> "none", message |-> "",
     \* observation: the checkpoint found at the start, and the one saved
     \* after the latest page of this run
     cpAtStart |-> {}, savedInRun |-> {},
     \* observation: the records the pages of this run held
     fetched |-> 0]

LoopContinues_NoPageCap(count, page, start, t) ==
    /\ count < maxRecords
    /\ t - start < maxProcessingTicks
\* The condition of the while loop, read at time t.
LoopContinues(count, page, start, t) ==
    /\ count < maxRecords
    /\ page <= maxPages
    /\ t - start < maxProcessingTicks

ShouldClear_Always(count, page) == TRUE
\* page > limits.maxPages || processedCount >= limits.maxRecords
ShouldClear(count, page) == page > maxPages \/ count >= maxRecords

Message(count, page) ==
    IF count >= maxRecords THEN "Max records limit reached"
    ELSE IF page > maxPages THEN "Max pages limit reached"
    ELSE "Backfill completed"

\* The while condition fails on its record or page limit.
LimitReached(count, page) == ~(count < maxRecords /\ page <= maxPages)

\* Why the loop ended: the break on an empty page, a limit of the while
\* condition, or else its deadline.
ExitOf(empty, count, page) ==
    IF empty THEN "noMoreData"
    ELSE IF LimitReached(count, page) THEN "limit"
    ELSE "deadline"

\* The code after the while loop: clear or keep the checkpoint, return.
AfterLoop(j, run, cp, log, empty) ==
    /\ jobs' = [jobs EXCEPT ![j] = [run EXCEPT !.pc = "returned",
                                               !.exit = ExitOf(empty, run.processedCount, run.page),
                                               !.message = Message(run.processedCount, run.page)]]
    /\ IF ShouldClear(run.processedCount, run.page)
       THEN /\ checkpoints' = ClearCheckpoint(cp, j)
            /\ cpLog' = [log EXCEPT ![j] = ClearCall]
       ELSE /\ checkpoints' = cp
            /\ cpLog' = log

\* The top of the while loop at time `now`: await the next page, or leave.
LoopTop(j, run, cp, log) ==
    IF LoopContinues(run.processedCount, run.page, run.startTime, now)
    THEN /\ jobs' = [jobs EXCEPT ![j] = [run EXCEPT !.pc = "awaiting"]]
         /\ checkpoints' = cp
         /\ cpLog' = log
    ELSE AfterLoop(j, run, cp, log, FALSE)

ResumeCount_Zero(found) == 0
\* processedCount = checkpoint.processedCount when a checkpoint was found.
ResumeCount(found) ==
    IF found = {} THEN 0 ELSE (CHOOSE c \in found : TRUE).processedCount

\* POST jobs/whop/backfill/<job>, up to the first await.
StartRun(j) ==
    \E auth \in BOOLEAN :
        IF ~auth
        THEN /\ jobs' = [jobs EXCEPT ![j] = [InitJob EXCEPT !.pc = "thrown",
                                                           !.exit = "unauthorized"]]
             /\ UNCHANGED <<gate, checkpoints, cpLog>>
        ELSE LET decision == CanProcessBackfill(WhopState, GetSize, maxSize)
                 found == GetLastCheckpoint(checkpoints, j)
                 count == ResumeCount(found)
             IN /\ gate' = [NoGate EXCEPT !.operation = "backfill", !.result = decision]
                /\ IF ~decision.allowed
                   THEN /\ jobs' = [jobs EXCEPT ![j] = [InitJob EXCEPT !.pc = "thrown",
                                                                      !.exit = "unavailable"]]
                        /\ UNCHANGED <<checkpoints, cpLog>>
                   ELSE LoopTop(j, [InitJob EXCEPT !.processedCount = count,
                                                   !.startTime = now,
                                                   !.cpAtStart = found],
                                checkpoints, cpLog)

\* A run of the job with the client left out.
BackfillStart(j) ==
    /\ jobs[j].pc # "awaiting"
    /\ StartRun(j)
    /\ UNCHANGED <<now, rlVars, rlObs, dlqVars, apiVars, breakerCreated, pauseSet, fanVars, callers, removeLog, runs>>

\* getMemberships / getPayments returns a page of n records.
ProcessPage(j) ==
    \E n \in 0..MaxPageSize, id \in RecordIds :
        IF n = 0
        THEN AfterLoop(j, jobs[j], checkpoints, cpLog, TRUE)
        ELSE LET count == jobs[j].processedCount + n
                 cp == SaveCheckpoint(checkpoints, j, LastIdOf(id), count, now)
                 run == [jobs[j] EXCEPT !.processedCount = count, !.page = @ + 1,
                                        !.savedInRun = {cp[j]}, !.fetched = @ + n]
             IN LoopTop(j, run, cp, [cpLog EXCEPT ![j] = SaveCall(LastIdOf(id), count)])

BackfillPage(j) ==
    /\ jobs[j].pc = "awaiting"
    /\ ProcessPage(j)
    /\ UNCHANGED <<now, rlVars, rlObs, dlqVars, apiVars, breakerCreated, gateVars, pauseSet, fanVars, callers, removeLog, runs>>

\* getMemberships / getPayments raises: the catch logs and rethrows.
RaiseRun(j) ==
    /\ jobs' = [jobs EXCEPT ![j].pc = "thrown", ![j].exit = "raised"]
    /\ UNCHANGED <<checkpoints, cpLog>>

BackfillRaise(j) ==
    /\ jobs[j].pc = "awaiting"
    /\ RaiseRun(j)
    /\ UNCHANGED <<now, rlVars, rlObs, dlqVars, apiVars, breakerCreated, gateVars,
                   pauseSet, fanVars, callers, removeLog, runs>>

BackfillMaxTime == StartTime + BackfillTicks

BackfillTick ==
    /\ now < BackfillMaxTime
    /\ now' = now + 1
    /\ UNCHANGED <<rlVars, rlObs, dlqVars, apiVars, breakerCreated, gateVars, cpVars, pauseSet, fanVars, callers, removeLog, runs>>

\* ------------------------------- two requests for backfillMemberships
\* Nothing keeps a second POST memberships out while the first awaits a
\* page: each request runs the handler with its own processedCount, page
\* and startTime over the one checkpoint of the jobType.
Requests == 1..2
OverlapJob == "backfill-memberships"

InitRequest ==
    [pc |-> "idle", processedCount |-> 0, page |-> 1, startTime |-> 0,
     exit |-> "none", message |-> "",
     \* observation: another request cleared the checkpoint while this one
     \* awaited a page
     stale |-> FALSE]

\* The code after the while loop, run by request r.
RequestAfterLoop(r, run, cp, log, empty) ==
    LET clears == ShouldClear(run.processedCount, run.page)
    IN /\ runs' = [q \in Requests |->
                     IF q = r
                     THEN [run EXCEPT !.pc = "returned",
                                      !.exit = ExitOf(empty, run.processedCount, run.page),
                                      !.message = Message(run.processedCount, run.page)]
                     ELSE IF clears /\ runs[q].pc = "awaiting"
                          THEN [runs[q] EXCEPT !.stale = TRUE]
                          ELSE runs[q]]
       /\ IF clears
          THEN /\ checkpoints' = ClearCheckpoint(cp, OverlapJob)
               /\ cpLog' = [log EXCEPT ![OverlapJob] = ClearCall]
          ELSE /\ checkpoints' = cp
               /\ cpLog' = log

\* The top of the while loop of request r at time `now`.
RequestLoopTop(r, run, cp, log) ==
    IF LoopContinues(run.processedCount, run.page, run.startTime, now)
    THEN /\ runs' = [runs EXCEPT ![r] = [run EXCEPT !.pc = "awaiting"]]
         /\ checkpoints' = cp
         /\ cpLog' = log
    ELSE RequestAfterLoop(r, run, cp, log, FALSE)

\* POST jobs/whop/backfill/memberships as request r, up to its first await.
RequestStart(r) ==
    /\ runs[r].pc # "awaiting"
    /\ \E auth \in BOOLEAN :
        IF ~auth
        THEN /\ runs' = [runs EXCEPT ![r] = [InitRequest EXCEPT !.pc = "thrown",
                                                               !.exit = "unauthorized"]]
             /\ UNCHANGED <<gate, checkpoints, cpLog>>
        ELSE LET decision == CanProcessBackfill(WhopState, GetSize, maxSize)
                 found == GetLastCheckpoint(checkpoints, OverlapJob)
             IN /\ gate' = [NoGate EXCEPT !.operation = "backfill", !.result = decision]
                /\ IF ~decision.allowed
                   THEN /\ runs' = [runs EXCEPT ![r] = [InitRequest EXCEPT !.pc = "thrown",
                                                                          !.exit = "unavailable"]]
                        /\ UNCHANGED <<checkpoints, cpLog>>
                   ELSE RequestLoopTop(r, [InitRequest EXCEPT !.processedCount = ResumeCount(found),
                                                              !.startTime = now],
                                       checkpoints, cpLog)
    /\ UNCHANGED <<now, rlVars, rlObs, dlqVars, apiVars, breakerCreated, pauseSet, fanVars,
                   callers, removeLog, jobs>>

\* getMemberships returns a page of n records to request r.
RequestPage(r) ==
    /\ runs[r].pc = "awaiting"
    /\ \E n \in 0..MaxPageSize, id \in RecordIds :
        IF n = 0
        THEN RequestAfterLoop(r, runs[r], checkpoints, cpLog, TRUE)
        ELSE LET count == runs[r].processedCount + n
                 cp == SaveCheckpoint(checkpoints, OverlapJob, LastIdOf(id), count, now)
                 run == [runs[r] EXCEPT !.processedCount = count, !.page = @ + 1]
             IN RequestLoopTop(r, run, cp,
                               [cpLog EXCEPT ![OverlapJob] = SaveCall(LastIdOf(id), count)])
    /\ UNCHANGED <<now, rlVars, rlObs, dlqVars, apiVars, breakerCreated, gateVars, pauseSet,
                   fanVars, callers, removeLog, jobs>>

\* getMemberships raises in request r: the catch logs and rethrows.
RequestRaise(r) ==
    /\ runs[r].pc = "awaiting"
    /\ runs' = [runs EXCEPT ![r].pc = "thrown", ![r].exit = "raised"]
    /\ UNCHANGED <<now, rlVars, rlObs, dlqVars, apiVars, breakerCreated, gateVars, cpVars,
                   pauseSet, fanVars, callers, removeLog>>

OverlapTick ==
    /\ now < BackfillMaxTime
    /\ now' = now + 1
    /\ UNCHANGED <<rlVars, rlObs, dlqVars, apiVars, breakerCreated, gateVars, cpVars, pauseSet,
                   fanVars, callers, removeLog, runs>>

\* ------------------------------------------- ProviderRegistry, fan-out
ProviderNames == {"whop", "stripe", "hotmart"}

\* What the isHealthy() of a provider's adapter does.
Outcomes == {"healthy", "unhealthy", "raises"}

\* getActiveProviders()
ActiveProviders == {p \in ProviderNames : providers[p]}

\* getProvidersToAnalyze(requestedProviders)
ProvidersToAnalyze(requested) ==
    IF requested = {} THEN ActiveProviders ELSE ActiveProviders \cap requested

NoFanout ==
    [kind |-> "none", included |-> {}, pending |-> {}, outcomes |-> [p \in {} |-> ""],
     results |-> [p \in {} |-> {}], done |-> FALSE, succeeded |-> 0, failed |-> 0]

\* The entry of one provider. checkProvidersHealth: healthMap.set(name,
\* isHealthy), false in its catch. analyzeProvider: a success, or in its
\* catch a failure with code ANALYSIS_ERROR; its promise is always fulfilled.
ResultOf(kind, outcome) ==
    IF kind = "health"
    THEN [status |-> "fulfilled", ok |-> (outcome = "healthy"), code |-> ""]
    ELSE IF outcome = "healthy"
         THEN [status |-> "fulfilled", ok |-> TRUE, code |-> ""]
         ELSE [status |-> "fulfilled", ok |-> FALSE, code |-> "ANALYSIS_ERROR"]

\* buildResponse: the entry kept for a settled result.
EntryOf(r) ==
    IF r.status = "fulfilled" THEN r
    ELSE [status |-> "rejected", ok |-> FALSE, code |-> "PROMISE_REJECTED"]

Completes_FailFast(pending, outcome) == pending = {} \/ outcome = "raises"
\* Promise.all over callbacks that catch, and Promise.allSettled: the
\* fan-out goes on when the last check has settled.
Completes(pending, outcome) == pending = {}

\* checkProvidersHealth(), up to its await.
CheckProvidersHealth ==
    /\ fanout.pending = {}
    /\ fanout' = [NoFanout EXCEPT !.kind = "health", !.included = ActiveProviders,
                                  !.pending = ActiveProviders,
                                  !.done = (ActiveProviders = {})]
    /\ UNCHANGED <<now, rlVars, rlObs, pauseSet, dlqVars, apiVars, breakerCreated, gateVars,
                   cpVars, providers, callers, removeLog, runs>>

\* analyzeAll(), up to its await (buildEmptyResponse when no provider is left).
AnalyzeAll ==
    /\ fanout.pending = {}
    /\ \E requested \in SUBSET ProviderNames :
          fanout' = [NoFanout EXCEPT !.kind = "analysis",
                                     !.included = ProvidersToAnalyze(requested),
                                     !.pending = ProvidersToAnalyze(requested),
                                     !.done = (ProvidersToAnalyze(requested) = {})]
    /\ UNCHANGED <<now, rlVars, rlObs, pauseSet, dlqVars, apiVars, breakerCreated, gateVars,
                   cpVars, providers, callers, removeLog, runs>>

\* The isHealthy() of provider p settles; when it was the last one the
\* fan-out returns (buildResponse counts the entries).
ProviderSettles(p) ==
    /\ p \in fanout.pending
    /\ ~fanout.done
    /\ \E outcome \in Outcomes :
        LET pending == fanout.pending \ {p}
            settled == DOMAIN fanout.results \cup {p}
            results == [q \in settled |->
                          IF q = p THEN EntryOf(ResultOf(fanout.kind, outcome))
                          ELSE fanout.results[q]]
            outcomes == [q \in settled |-> IF q = p THEN outcome ELSE fanout.outcomes[q]]
            done == Completes(pending, outcome)
            counted == done /\ fanout.kind = "analysis"
        IN fanout' = [fanout EXCEPT
                        !.pending = pending, !.results = results, !.outcomes = outcomes,
                        !.done = done,
                        !.succeeded = IF counted
                                      THEN Cardinality({q \in settled : results[q].ok}) ELSE 0,
                        !.failed = IF counted
                                   THEN Cardinality({q \in settled : ~results[q].ok}) ELSE 0]
    /\ UNCHANGED <<now, rlVars, rlObs, pauseSet, dlqVars, apiVars, breakerCreated, gateVars,
                   cpVars, providers, callers, removeLog, runs>>

\* enableProvider(name) / disableProvider(name)
EnableProvider(p) ==
    /\ providers' = [providers EXCEPT ![p] = TRUE]
    /\ UNCHANGED <<now, rlVars, rlObs, pauseSet, dlqVars, apiVars, breakerCreated, gateVars,
                   cpVars, fanout, callers, removeLog, runs>>

DisableProvider(p) ==
    /\ providers' = [providers EXCEPT ![p] = FALSE]
    /\ UNCHANGED <<now, rlVars, rlObs, pauseSet, dlqVars, apiVars, breakerCreated, gateVars,
                   cpVars, fanout, callers, removeLog, runs>>

\* ----------------------------- a backfill run over the API client, callers
\* Who awaits what: the call a job awaits, the HTTP request of a job, the
\* fire() of a call. Nothing in the code cancels an operation whose caller
\* has stopped waiting.
NoCallers ==
    [awaits |-> [j \in JobTypes |-> 0],
     request |-> [j \in JobTypes |-> "none"],
     fire |-> [c \in Calls |-> "none"],
     runs |-> [j \in JobTypes |-> 0],
     \* observation: a run of the job was rejected by the gate; where the
     \* job and the call stood when their caller stopped waiting
     rejected |-> [j \in JobTypes |-> FALSE],
     leftJob |-> [j \in JobTypes |-> [page |-> 0, processedCount |-> 0]],
     leftCall |-> [c \in Calls |-> [pc |-> "none", httpCount |-> 0]]]

FreeCalls == {c \in Calls : calls[c].pc = "new"}
FreeCall == CHOOSE c \in FreeCalls : \A d \in FreeCalls : c <= d

Settled == {"succeeded", "failed", "rejected"}

\* The job awaits the next page: getMemberships / getPayments fires a call.
NextPageCall(j) ==
    IF jobs'[j].pc = "awaiting"
    THEN /\ FreeCalls # {}
         /\ Fire(FreeCall)
    ELSE UNCHANGED <<requestQueue, isProcessing, lastRequestTime, pauseUntil, current, wakeAt,
                     rlObs, apiVars, breakerCreated>>

\* The callers once job j has run on to its next await or to its end;
\* `done` is the call the job was awaiting.
CallersAfter(j, done) ==
    LET awaiting == jobs'[j].pc = "awaiting" IN
    [callers EXCEPT
        !.awaits[j] = IF awaiting THEN FreeCall ELSE 0,
        !.request[j] = IF awaiting THEN (IF done = 0 THEN "waiting" ELSE @)
                       ELSE IF @ = "timedOut" THEN @ ELSE "answered",
        !.fire = [c \in Calls |->
                    IF c = done THEN (IF @[c] = "waiting" THEN "settled" ELSE @[c])
                    ELSE IF awaiting /\ c = FreeCall THEN "waiting"
                    ELSE @[c]],
        !.runs[j] = IF done = 0 THEN @ + 1 ELSE @,
        !.rejected[j] = @ \/ jobs'[j].exit = "unavailable",
        !.leftJob[j] = IF done = 0 THEN NoCallers.leftJob[j] ELSE @]

\* POST jobs/whop/backfill/<job> up to its first await, the call of
\* getMemberships / getPayments included.
JobStart(j) ==
    /\ jobs[j].pc # "awaiting"
    /\ callers.runs[j] < MaxRuns
    /\ StartRun(j)
    /\ NextPageCall(j)
    /\ callers' = CallersAfter(j, 0)
    /\ UNCHANGED <<now, consecutiveRateLimits, pauseSet, dlqVars, fanVars, removeLog, runs>>

\* The call a job awaits has settled and its fire() was still awaited.
CanContinue(j) ==
    /\ jobs[j].pc = "awaiting"
    /\ callers.awaits[j] # 0
    /\ calls[callers.awaits[j]].pc \in Settled
    /\ callers.fire[callers.awaits[j]] = "waiting"

\* A settled call resumes its job in the same turn of the event loop:
\* nothing else runs before the job has gone on.
ContinuationDue == \E j \in JobTypes : CanContinue(j)

\* The job goes on after its await: the page is processed and the loop goes
\* round to the next call, or the failure is rethrown.
JobContinue(j) ==
    /\ CanContinue(j)
    /\ IF calls[callers.awaits[j]].pc = "succeeded"
       THEN /\ ProcessPage(j)
            /\ NextPageCall(j)
       ELSE /\ RaiseRun(j)
            /\ UNCHANGED <<requestQueue, isProcessing, lastRequestTime, pauseUntil, current,
                           wakeAt, rlObs, apiVars, breakerCreated>>
    /\ callers' = CallersAfter(j, callers.awaits[j])
    /\ UNCHANGED <<now, consecutiveRateLimits, pauseSet, dlqVars, gateVars, fanVars, removeLog, runs>>

\* The jobs awaiting call c.
Awaiting(c) == {j \in JobTypes : jobs[j].pc = "awaiting" /\ callers.awaits[j] = c}

\* The per-call timeout of the breaker fires while call c is pending: the
\* breaker counts a failure and rejects fire(), the job awaiting it rethrows;
\* the calls are left as `cs`.
StopWaiting(c, cs) ==
    /\ callers.fire[c] = "waiting"
    /\ calls[c].pc \notin Settled
    /\ breaker' = BreakerFailure(breaker, c, now)
    /\ calls' = cs
    /\ jobs' = [j \in JobTypes |->
                  IF j \in Awaiting(c)
                  THEN [jobs[j] EXCEPT !.pc = "thrown", !.exit = "raised"]
                  ELSE jobs[j]]
    /\ callers' = [callers EXCEPT
                      !.fire[c] = "timedOut",
                      !.leftCall[c] = [pc |-> calls[c].pc, httpCount |-> calls[c].httpCount],
                      !.awaits = [j \in JobTypes |-> IF j \in Awaiting(c) THEN 0 ELSE @[j]],
                      !.request = [j \in JobTypes |->
                                      IF j \in Awaiting(c) /\ @[j] = "waiting"
                                      THEN "answered" ELSE @[j]]]
    /\ UNCHANGED <<now, rlVars, rlObs, pauseSet, dlqVars, breakerCreated, gateVars,
                   checkpoints, cpLog, fanVars, removeLog, runs>>

StopWaitingCall_Withdraw(c) == StopWaiting(c, [calls EXCEPT ![c].pc = "withdrawn"])
\* makeRequestWithRetry runs on: the wrapper handed to the breaker has no
\* way to stop it.
StopWaitingCall(c) == StopWaiting(c, calls)

\* The TimeoutInterceptor answers the request of job j with a
\* RequestTimeoutException; the handler is not told.
StopWaitingJob(j) ==
    /\ callers.request[j] = "waiting"
    /\ jobs[j].pc = "awaiting"
    /\ callers' = [callers EXCEPT
                      !.request[j] = "timedOut",
                      !.leftJob[j] = [page |-> jobs[j].page,
                                      processedCount |-> jobs[j].processedCount]]
    /\ UNCHANGED <<now, rlVars, rlObs, pauseSet, dlqVars, apiVars, breakerCreated, gateVars,
                   cpVars, fanVars, removeLog, runs>>

JobMaxTime == StartTime + JobTicks

JobTick ==
    /\ now < JobMaxTime
    /\ now' = now + 1
    /\ UNCHANGED <<rlVars, rlObs, pauseSet, dlqVars, apiVars, breakerCreated, gateVars, cpVars,
                   fanVars, callers, removeLog, runs>>

InitServices ==
    /\ providers = [p \in ProviderNames |-> TRUE]
    /\ fanout = NoFanout
    /\ callers = NoCallers
    /\ gate = NoGate
    /\ checkpoints = NoCheckpoints
    /\ cpLog = [j \in JobTypes |-> NoCall]
    /\ jobs = [j \in JobTypes |-> InitJob]
    /\ runs = [r \in Requests |-> InitRequest]

InitLimiter ==
    /\ requestQueue = <<>>
    /\ isProcessing = FALSE
    /\ lastRequestTime = 0
    /\ consecutiveRateLimits = 0
    /\ pauseUntil = 0
    /\ current = 0
    /\ wakeAt = 0
    /\ nextTicket = 1
    /\ released = <<>>
    /\ lastReleaseAt = -1
    /\ pauseSet = 0

Init ==
    /\ now = StartTime
    /\ InitLimiter
    /\ InitDlq({MaxDlqSize})
    /\ InitApi
    /\ breakerCreated = FALSE
    /\ InitServices

NextLimiter == Acquire \/ LoopWake \/ OnRateLimitDetected \/ OnSuccess \/ Tick

SpecLimiter == Init /\ [][NextLimiter]_vars

NextLimiterFair == Acquire \/ LoopWake \/ OnRateLimitDetected \/ OnSuccess \/ TickOnTime

\* Timers fire (LoopWake) and time passes (TickOnTime).
SpecLimiterFair ==
    Init /\ [][NextLimiterFair]_vars /\ WF_vars(LoopWake) /\ WF_vars(TickOnTime)

\* The DeadLetterQueue on its own, for every configured size.
InitDlqSpec ==
    /\ now = StartTime
    /\ InitLimiter
    /\ InitDlq(1..MaxDlqSize)
    /\ InitApi
    /\ breakerCreated = FALSE
    /\ InitServices

NextDlq == DlqAdd \/ DlqRemove \/ HandleCleanup \/ DlqTick

SpecDlq == InitDlqSpec /\ [][NextDlq]_vars

\* The API client: calls through the breaker, the retry loop and the shared
\* RateLimiter, against an upstream that answers as it likes.
Next ==
    \/ \E c \in Calls : ApiCall(c)
    \/ \E c \in Calls : HttpResponse(c)
    \/ \E c \in Calls : BackoffEnd(c)
    \/ LoopWake
    \/ BreakerReset
    \/ ApiTick

Spec == Init /\ [][Next]_vars

\* The degradation gate, asked in every state of the store and the breaker.
InitGate ==
    /\ now = StartTime
    /\ InitLimiter
    /\ InitDlq(1..MaxDlqSize)
    /\ InitBreakerLeft
    /\ InitServices

NextGate == AnalysisGate \/ BackfillGate \/ DegradationLevel \/ DlqAdd \/ DlqRemove

\* makeRequestWithRetry under every method it can be handed (the public
\* methods of the client hand it 'GET').
InitPolicy ==
    /\ now = StartTime
    /\ InitLimiter
    /\ InitDlq({MaxDlqSize})
    /\ breaker = InitBreaker
    /\ calls \in [Calls -> {[InitCall EXCEPT !.method = m] : m \in Methods}]
    /\ breakerCreated = FALSE
    /\ InitServices

SpecPolicy == InitPolicy /\ [][Next]_vars

SpecGate == InitGate /\ [][NextGate]_vars

\* The fan-out over the active providers.
NextFanout ==
    \/ CheckProvidersHealth
    \/ AnalyzeAll
    \/ \E p \in ProviderNames : ProviderSettles(p)
    \/ \E p \in ProviderNames : EnableProvider(p)
    \/ \E p \in ProviderNames : DisableProvider(p)

SpecFanout == Init /\ [][NextFanout]_vars

\* The CheckpointService on its own.
NextCheckpoint == SaveCheckpointCall \/ ClearCheckpointCall \/ CheckpointTick

SpecCheckpoint == Init /\ [][NextCheckpoint]_vars

\* The two backfill jobs against an upstream that answers as it likes.
InitBackfill ==
    /\ now = StartTime
    /\ InitLimiter
    /\ InitDlq({MaxDlqSize})
    /\ InitBreakerLeft
    /\ InitServices

NextBackfill ==
    \/ \E j \in JobTypes : BackfillStart(j)
    \/ \E j \in JobTypes : BackfillPage(j)
    \/ \E j \in JobTypes : BackfillRaise(j)
    \/ BackfillTick

SpecBackfill == InitBackfill /\ [][NextBackfill]_vars

\* The jobs behind a breaker no call has touched yet, every upstream call a
\* run awaits returning or raising.
SpecBackfillFair ==
    /\ Init
    /\ [][NextBackfill]_vars
    /\ \A j \in JobTypes : WF_vars(BackfillPage(j) \/ BackfillRaise(j))

\* Two requests for backfillMemberships against an upstream that answers as
\* it likes.
NextOverlap ==
    \/ \E r \in Requests : RequestStart(r)
    \/ \E r \in Requests : RequestPage(r)
    \/ \E r \in Requests : RequestRaise(r)
    \/ OverlapTick

SpecOverlap == InitBackfill /\ [][NextOverlap]_vars

\* The backfill jobs over the API client, its breaker and the RateLimiter,
\* with callers that may stop waiting.
NextJob ==
    \/ \E j \in JobTypes : ~ContinuationDue /\ JobStart(j)
    \/ \E j \in JobTypes : JobContinue(j)
    \/ \E c \in Calls : ~ContinuationDue /\ HttpResponse(c)
    \/ \E c \in Calls : ~ContinuationDue /\ BackoffEnd(c)
    \/ ~ContinuationDue /\ LoopWake
    \/ ~ContinuationDue /\ BreakerReset
    \/ \E c \in Calls : ~ContinuationDue /\ StopWaitingCall(c)
    \/ \E j \in JobTypes : ~ContinuationDue /\ StopWaitingJob(j)
    \/ ~ContinuationDue /\ JobTick

SpecJob == InitBackfill /\ [][NextJob]_vars

\* ------------------------------------------------------------- claims
ReleasedInStep == Len(released') - Len(released)

\* C1: any two consecutive releases of the dispatch loop are at least
\* minDelayBetweenRequests apart: a step releases at most one request, and
\* it does so no earlier than minDelayBetweenRequests after the previous
\* release.
C1_RateSpacing ==
    [][ReleasedInStep > 0 =>
        /\ ReleasedInStep = 1
        /\ (lastReleaseAt # -1 => now - lastReleaseAt >= minDelayBetweenRequests)]_vars

\* Two releases were made and the queue ran empty after them.
C1_Witness == Len(released) >= 2 /\ ~isProcessing /\ lastReleaseAt >= StartTime + minDelayBetweenRequests

\* C2: requests are released in arrival order (tickets are numbered in
\* arrival order, so the i-th release is ticket i).
C2_Fifo == \A i \in DOMAIN released : released[i] = i

\* A request was released while two later arrivals, one held by the
\* suspended loop and one behind it, were waiting.
C2_Witness == Len(released) >= 1 /\ current # 0 /\ requestQueue # <<>>

\* C3: every acquire() is released, exactly once, and no request waits in
\* the queue while no dispatch loop is running.
C3_Liveness ==
    /\ [](~isProcessing => requestQueue = <<>>)
    /\ [](\A i, j \in DOMAIN released : released[i] = released[j] => i = j)
    /\ \A t \in 1..MaxAcquire : (t < nextTicket) ~> (t \in Range(released))

\* Every request of the run was released and the loop has stopped.
C3_Witness == nextTicket = MaxAcquire + 1 /\ Len(released) = MaxAcquire /\ ~isProcessing

\* C4: no call is attempted more than maxRetries + 1 times; a call that
\* failed on a 429 (so every attempt before it was answered 429 too) was
\* attempted exactly maxRetries + 1 times, and after the 429 of attempt
\* maxRetries + 1 the failure is raised instead of another retry.
C4_RetryBound ==
    \A c \in Calls :
        /\ calls[c].httpCount <= maxRetries + 1
        /\ (calls[c].pc = "failed" /\ calls[c].lastStatus = 429)
              => calls[c].httpCount = maxRetries + 1
        /\ (calls[c].httpCount = maxRetries + 1 /\ calls[c].lastStatus = 429
            /\ calls[c].pc # "inflight") => calls[c].pc = "failed"

\* A call was answered 429 four times and failed.
C4_Witness ==
    \E c \in Calls : /\ calls[c].pc = "failed"
                     /\ calls[c].lastStatus = 429
                     /\ calls[c].httpCount = maxRetries + 1

\* C5: a call made while the breaker is open is rejected: it never joins
\* the RateLimiter queue and never sends an HTTP request.
C5_OpenRejects ==
    \A c \in Calls :
        calls[c].firedIn = "open" =>
            /\ calls[c].pc = "rejected"
            /\ calls[c].ticket = 0
            /\ calls[c].httpCount = 0

\* A call was made while the breaker was open.
C5_Witness == \E c \in Calls : calls[c].firedIn = "open" /\ calls[c].pc = "rejected"

\* C6: no HTTP request is sent while the breaker is open.
C6_NoAttemptWhileOpen ==
    [][(\E c \in Calls : calls'[c].httpCount > calls[c].httpCount)
          => BreakerState # "open"]_vars

\* C8: getSize() <= maxSize in every reachable state, for every configured
\* maxSize >= 1.
C8_Capacity == GetSize <= maxSize

\* C9: addFailedEvent with an id already in the store leaves the size and
\* every other entry unchanged, evicts nothing (also at maxSize) and sets
\* the entry's error, retryCount and timestamp to the reported values.
C9_IdempotentUpsert ==
    \A id \in Ids(dlq), rep \in FailureReports :
        LET q2 == AddFailedEvent(dlq, maxSize, id, rep[1], rep[2], now)
            i == FindIndex(dlq, id)
        IN /\ Len(q2) = Len(dlq)
           /\ \A j \in DOMAIN dlq : j # i => q2[j] = dlq[j]
           /\ q2[i].id = id
           /\ q2[i].error = rep[1]
           /\ q2[i].retryCount = rep[2]
           /\ q2[i].timestamp = now

\* The store is full and an earlier entry was updated after a later one
\* was added.
C9_Witness ==
    /\ Len(dlq) >= maxSize
    /\ \E i, j \in DOMAIN dlq : i < j /\ dlq[i].timestamp > dlq[j].timestamp

\* A step in which addFailedEvent stored a new id.
AddedNewId == \E i \in DOMAIN dlq' : dlq'[i].id \notin Ids(dlq)

\* C10: when a new id is added to a full store, the evicted entries are the
\* oldest ones: no evicted entry has a later timestamp than a surviving one.
C10_EvictsOldest ==
    [][(Len(dlq) = maxSize /\ AddedNewId) =>
        \A i, j \in DOMAIN dlq :
            (dlq[i].id \notin Ids(dlq') /\ dlq[j].id \in Ids(dlq'))
                => dlq[i].timestamp <= dlq[j].timestamp]_vars


\* C11: canProcessAnalysis() answers {allowed: false, retryAfter: 60} when
\* the 'whop-api' breaker is open, {allowed: false, retryAfter: 300} when
\* the store holds at least MAX_DLQ_SIZE events, and {allowed: true} in
\* every other state, a breaker that was never created included.
C11_AnalysisPolicy ==
    [][(gate' # gate /\ gate'.operation = "analysis") =>
          /\ WhopState = "open" =>
                gate'.result = [allowed |-> FALSE, retryAfter |-> {60}]
          /\ (WhopState # "open" /\ Len(dlq) >= maxSize) =>
                gate'.result = [allowed |-> FALSE, retryAfter |-> {300}]
          /\ (WhopState # "open" /\ Len(dlq) < maxSize) =>
                gate'.result = [allowed |-> TRUE, retryAfter |-> {}]]_vars

C11_Witness ==
    /\ gate.operation = "analysis"
    /\ gate.result = [allowed |-> FALSE, retryAfter |-> {300}]
    /\ WhopState = "none"
    /\ Len(dlq) >= maxSize

\* C12: canProcessBackfill() rejects, without a retryAfter, exactly when the
\* breaker is open; the size of the store plays no part.
C12_BackfillPolicy ==
    [][(gate' # gate /\ gate'.operation = "backfill") =>
          /\ gate'.result.allowed <=> (WhopState # "open")
          /\ gate'.result.retryAfter = {}]_vars

C12_Witness ==
    /\ gate.operation = "backfill"
    /\ gate.result.allowed
    /\ Len(dlq) >= maxSize
    /\ WhopState = "halfOpen"

\* C13: getLastCheckpoint(jobType) is the record of the latest
\* saveCheckpoint for that jobType since its last clearCheckpoint, and
\* nothing when there was none; calls for another jobType change nothing.
C13_CheckpointMap ==
    \A j \in JobTypes :
        LET got == GetLastCheckpoint(checkpoints, j) IN
        IF cpLog[j].op = "save"
        THEN /\ Cardinality(got) = 1
             /\ \A c \in got : /\ c.jobType = j
                               /\ c.lastProcessedId = cpLog[j].lastProcessedId
                               /\ c.processedCount = cpLog[j].processedCount
        ELSE got = {}

C13_Witness ==
    /\ cpLog["backfill-memberships"].op = "save"
    /\ cpLog["backfill-memberships"].processedCount = MaxSavedCount
    /\ cpLog["backfill-payments"].op = "clear"
    /\ \E c \in GetLastCheckpoint(checkpoints, "backfill-memberships") :
          c.timestamp < now

\* C14: a run that ends on an empty page, within its limits, leaves no
\* checkpoint for its jobType.
C14_ClearedOnCompletion ==
    \A j \in JobTypes :
        (jobs[j].pc = "returned" /\ jobs[j].exit = "noMoreData") =>
            GetLastCheckpoint(checkpoints, j) = {}

\* C15: a run that ends on the job deadline or on a raised upstream call
\* leaves the checkpoint of its last processed page (or the one it found,
\* when it processed none), and the next run of the job starts counting
\* from that checkpoint's processedCount.
EndedEarly(j) ==
    \/ (jobs[j].pc = "returned" /\ jobs[j].exit = "deadline")
    \/ (jobs[j].pc = "thrown" /\ jobs[j].exit = "raised")

KeptCheckpoint(j) ==
    IF jobs[j].savedInRun # {} THEN jobs[j].savedInRun ELSE jobs[j].cpAtStart

UpstreamWait(h) ==
    IF h.kind = "none" THEN DefaultRetryAfterSeconds * TicksPerSecond
    ELSE h.seconds * TicksPerSecond

C16_ServerGuidanceIsFloor ==
    \A c \in Calls :
        calls[c].pc = "backoff" =>
            /\ calls[c].waitTime = Max(UpstreamWait(calls[c].hint), BackoffDelay(calls[c].attempt))
            /\ calls[c].hint.kind # "none" => calls[c].waitTime >= calls[c].hint.seconds * TicksPerSecond

\* C17: an attempt that fails with a status other than 429, or with a 429
\* when the retries are used up, ends the call: no backoff, no notice to the
\* RateLimiter, no further attempt, and the caller gets the failure of that
\* attempt.
Answered(c) == calls[c].pc = "inflight" /\ calls'[c].pc # "inflight"

C17_FailuresPropagate ==
    [][\A c \in Calls :
          /\ (Answered(c) /\ calls'[c].lastStatus # 200
                /\ (calls'[c].lastStatus # 429 \/ calls[c].attempt >= maxRetries)) =>
                /\ calls'[c].pc = "failed"
                /\ calls'[c].error.status = calls'[c].lastStatus
                /\ calls'[c].httpCount = calls[c].httpCount
                /\ consecutiveRateLimits' = consecutiveRateLimits
                /\ pauseUntil' = pauseUntil
          /\ calls[c].pc = "failed" => calls'[c] = calls[c]]_vars

C17_Witness ==
    \E c \in Calls : /\ calls[c].pc = "failed"
                      /\ calls[c].lastStatus = 500
                      /\ calls[c].error.status = 500
                      /\ calls[c].attempt = 1
                      /\ calls[c].httpCount = 2
                      /\ consecutiveRateLimits = 1

\* C18: a request whose method is not GET, in any letter case, is refused
\* with Forbidden before it is sent; only GET requests reach the upstream.
C18_ReadOnly ==
    \A c \in Calls :
        ToUpperCase(calls[c].method) # "GET" =>
            /\ calls[c].httpCount = 0
            /\ calls[c].pc \in {"new", "queued", "rejected", "failed"}
            /\ calls[c].pc = "failed" => calls[c].error.status = 403

C18_Witness ==
    /\ \E c \in Calls : /\ calls[c].method = "post"
                        /\ calls[c].pc = "failed"
                        /\ calls[c].ticket \in Range(released)
    /\ \E c \in Calls : calls[c].method = "get" /\ calls[c].httpCount > 0

\* C19: every request sent was preceded by its own acquire() that the
\* RateLimiter released: the requests sent never outnumber the releases.
RECURSIVE HttpDispatches(_)
HttpDispatches(S) ==
    IF S = {} THEN 0
    ELSE LET c == CHOOSE x \in S : TRUE IN calls[c].httpCount + HttpDispatches(S \ {c})

C19_NoBypass ==
    /\ HttpDispatches(Calls) <= Len(released)
    /\ \A c \in Calls : calls[c].pc = "inflight" => calls[c].ticket \in Range(released)
    /\ \A c \in Calls : calls[c].httpCount <= calls[c].attempt + 1

C19_Witness ==
    /\ HttpDispatches(Calls) >= 3
    /\ \E c \in Calls : calls[c].pc = "inflight" /\ calls[c].attempt >= 1
    /\ \E c \in Calls : calls[c].pc = "queued"

\* C20: a call that has failed for good has an entry in the DeadLetterQueue
\* when its failure reaches the caller.
C20_FailuresRecorded ==
    \A c \in Calls : calls[c].pc = "failed" => Len(dlq) > 0

\* A step in which addFailedEvent called alert().
AlertInStep == alertEmitted' /\ dlq' # dlq

\* A step that takes the store from below alertThreshold to at or above it.
CrossesThreshold == Len(dlq) < alertThreshold /\ Len(dlq') >= alertThreshold

\* C21: an alert is emitted in exactly the steps in which the size of the
\* store crosses alertThreshold from below; an insertion made while the size
\* is already at or above the threshold emits none.
C21_AlertOncePerCrossing == [][AlertInStep <=> CrossesThreshold]_vars

\* C22: getFailedEvents() is ordered by entry timestamp, most recent first,
\* holds each stored entry once, and with a limit n >= 1 is the first n
\* entries of that order.
C22_NewestFirst ==
    LET all == GetFailedEvents(dlq, 0) IN
    /\ Len(all) = Len(dlq)
    /\ {all[i] : i \in DOMAIN all} = {dlq[i] : i \in DOMAIN dlq}
    /\ \A i, j \in DOMAIN all : i < j => all[i].timestamp >= all[j].timestamp
    /\ \A n \in 1..MaxDlqSize :
          GetFailedEvents(dlq, n) = SubSeq(all, 1, Min(n, Len(all)))

\* C28: no acquire() is released earlier than the pause deadline that
\* onRateLimitDetected() set, whatever the dispatch loop was doing when the
\* pause was set.
C28_PauseHonoured == [][ReleasedInStep > 0 => now >= pauseSet]_vars

\* A step in which acquire() was called.
AcquireInStep == nextTicket' # nextTicket

\* C29: the running flag is set exactly while a dispatch loop is suspended
\* holding a request, and an acquire() that arrives while the flag is set
\* only appends to the queue: it starts no second loop, so the held request,
\* its timer and the releases are left as they were.
C29_OneLoop ==
    /\ [](isProcessing <=> current # 0)
    /\ [][(isProcessing /\ AcquireInStep) =>
            /\ requestQueue' = Append(requestQueue, nextTicket)
            /\ UNCHANGED <<isProcessing, current, wakeAt, lastRequestTime, pauseUntil,
                           released, lastReleaseAt>>]_vars

\* The loop is suspended holding one request while a later acquire() waits
\* in the queue behind it.
C29_Witness == isProcessing /\ current # 0 /\ requestQueue # <<>> /\ released # <<>>

\* C30: the counter stays in {0, 1, 2}; a step changes it by +1 below the
\* threshold without touching the pause, or from 2 to 0 while setting the
\* pause (the third signal), or by -1 above zero without touching the
\* pause; and the pause is set in no other step.
C30_CounterProtocol ==
    /\ [](consecutiveRateLimits \in 0..(maxConsecutiveRateLimits - 1))
    /\ [][/\ consecutiveRateLimits' # consecutiveRateLimits =>
               \/ /\ consecutiveRateLimits' = consecutiveRateLimits + 1
                  /\ consecutiveRateLimits' < maxConsecutiveRateLimits
                  /\ UNCHANGED <<pauseUntil, pauseSet>>
               \/ /\ consecutiveRateLimits + 1 = maxConsecutiveRateLimits
                  /\ consecutiveRateLimits' = 0
                  /\ pauseUntil' = Max(pauseUntil, now + PauseDelay)
                  /\ pauseSet' = pauseUntil'
               \/ /\ consecutiveRateLimits > 0
                  /\ consecutiveRateLimits' = consecutiveRateLimits - 1
                  /\ UNCHANGED <<pauseUntil, pauseSet>>
          /\ pauseSet' # pauseSet =>
               (consecutiveRateLimits + 1 = maxConsecutiveRateLimits
                /\ consecutiveRateLimits' = 0)]_vars

\* Three signals set a pause and reset the counter, two more raised it to 2.
C30_Witness ==
    /\ pauseSet > 0
    /\ pauseUntil = pauseSet
    /\ consecutiveRateLimits = maxConsecutiveRateLimits - 1

\* C23: getDegradationLevel() answers critical when the breaker is open or
\* the store holds at least alertThreshold events, otherwise degraded when
\* the breaker is halfOpen or the store holds more than half of its maximum,
\* otherwise normal; asking rejects nothing and leaves the breaker and the
\* store as they were.
C23_DegradationLevel ==
    [][(gate' # gate /\ gate'.operation = "level") =>
          /\ gate'.level =
                IF WhopState = "open" \/ Len(dlq) >= alertThreshold THEN "critical"
                ELSE IF WhopState = "halfOpen" \/ 2 * Len(dlq) > maxSize THEN "degraded"
                ELSE "normal"
          /\ gate'.result.allowed
          /\ UNCHANGED <<breaker, breakerCreated, dlq, maxSize, nextEventId, alertEmitted>>]_vars

\* Asked with a halfOpen breaker over a store below half of its maximum.
C23_Witness ==
    /\ gate.operation = "level"
    /\ gate.level = "degraded"
    /\ WhopState = "halfOpen"
    /\ 2 * Len(dlq) <= maxSize
    /\ Len(dlq) > 0

\* 1000, 2000, 4000, 8000 ms.
BackoffMs == <<1000, 2000, 4000, 8000>>

\* C24: the backoff computed before jitter for attempt a is the base times
\* 2^a, that is 1000, 2000, 4000, 8000 ms for a = 0..3 with a base of
\* 1000 ms, strictly increasing in a; a call waiting in a retry backoff
\* carries that delay for its attempt, and exponentialBackoff of delay.util
\* computes the same values.
C24_Backoff ==
    /\ \A a \in 0..maxRetries :
          /\ BackoffDelay(a) * 1000 = BackoffMs[a + 1] * TicksPerSecond
          /\ ExponentialBackoff(a) = BackoffDelay(a)
    /\ \A a \in 0..(maxRetries - 1) : BackoffDelay(a) < BackoffDelay(a + 1)
    /\ \A c \in Calls :
          calls[c].pc = "backoff" =>
              /\ calls[c].backoffDelay * 1000 = BackoffMs[calls[c].attempt + 1] * TicksPerSecond
              /\ calls[c].waitTime >= calls[c].backoffDelay

\* The third attempt of a call was answered 429: it waits on a backoff of 4 s.
C24_Witness ==
    \E c \in Calls :
        /\ calls[c].pc = "backoff"
        /\ calls[c].attempt = 2
        /\ calls[c].backoffDelay = 4 * TicksPerSecond

\* A step in which checkProvidersHealth() or analyzeAll() was called.
FanoutStarts == fanout' # fanout /\ DOMAIN fanout'.results = {}

\* C25: a fan-out is complete exactly when the check of every included
\* provider has settled; it covers the providers active when it was
\* called, holds one entry per settled provider, records a provider whose
\* check raised or reported unhealthy as failed (false) next to the entries
\* of the others, and the analysis counts add up:
\* providersSucceeded + providersFailed = providersIncluded.
C25_WaitForAll ==
    /\ [](/\ fanout.done <=> (fanout.kind # "none" /\ fanout.pending = {})
          /\ fanout.pending \subseteq fanout.included
          /\ DOMAIN fanout.results = fanout.included \ fanout.pending
          /\ \A p \in DOMAIN fanout.results :
                fanout.results[p].ok <=> (fanout.outcomes[p] = "healthy")
          /\ (fanout.done /\ fanout.kind = "analysis") =>
                /\ fanout.succeeded + fanout.failed = Cardinality(fanout.included)
                /\ fanout.succeeded =
                      Cardinality({p \in fanout.included : fanout.outcomes[p] = "healthy"}))
    /\ [][FanoutStarts =>
            /\ fanout'.included \subseteq ActiveProviders
            /\ fanout'.kind = "health" => fanout'.included = ActiveProviders]_vars

\* An analysis over three providers is complete: one check raised, one
\* reported unhealthy, one succeeded.
C25_Witness ==
    /\ fanout.done
    /\ fanout.kind = "analysis"
    /\ fanout.included = ProviderNames
    /\ {fanout.outcomes[p] : p \in fanout.included} = Outcomes
    /\ fanout.succeeded = 1
    /\ fanout.failed = 2

\* A step in which the breaker stopped waiting for call c.
CallLeft(c) == callers'.fire[c] = "timedOut" /\ callers.fire[c] # "timedOut"

\* A step in which the TimeoutInterceptor stopped waiting for job j.
JobLeft(j) == callers'.request[j] = "timedOut" /\ callers.request[j] # "timedOut"

\* The state of the RateLimiter's queue and loop.
LimiterQueue == <<requestQueue, isProcessing, current, wakeAt, lastRequestTime, pauseUntil,
                  nextTicket, released, lastReleaseAt>>

\* C26: a caller that stops waiting retracts nothing. The step in which the
\* breaker's timeout or the TimeoutInterceptor fires leaves the calls, the
\* RateLimiter queue, the jobs' loops and the checkpoints as they were;
\* afterwards an abandoned queued call still holds its place and tickets are
\* released in arrival order with none skipped, an abandoned call in a
\* backoff wait can still go on to its next attempt, and a job whose
\* request timed out still saves a checkpoint after each page it processes.
C26_NoRetraction ==
    /\ [][\A c \in Calls : CallLeft(c) => (calls' = calls /\ UNCHANGED LimiterQueue)]_vars
    /\ [][\A j \in JobTypes :
            JobLeft(j) => (UNCHANGED <<jobs, calls, checkpoints, cpLog>>
                           /\ UNCHANGED LimiterQueue)]_vars
    /\ [](/\ \A i \in DOMAIN released : released[i] = i
          /\ \A c \in Calls :
                /\ calls[c].pc = "queued" =>
                      calls[c].ticket \in Range(requestQueue) \cup {current}
                /\ (TimedOut(c) /\ calls[c].pc = "backoff") => ENABLED BackoffEnd(c))
    /\ [][\A j \in JobTypes :
            (jobs[j].pc = "awaiting" /\ jobs'[j].page > jobs[j].page) =>
                \E cp \in jobs'[j].savedInRun :
                    /\ cp.processedCount = jobs'[j].processedCount
                    /\ cp.processedCount > jobs[j].processedCount]_vars

\* A call abandoned while it was queued was released, sent, answered 429
\* and queued again for its second attempt; the job whose request had timed
\* out before went on to process a page and save its checkpoint.
C26_Witness ==
    /\ \E c \in Calls :
          /\ TimedOut(c)
          /\ callers.leftCall[c] = [pc |-> "queued", httpCount |-> 0]
          /\ calls[c].httpCount = 1
          /\ calls[c].attempt = 1
          /\ calls[c].pc = "queued"
    /\ \E j \in JobTypes :
          /\ callers.request[j] = "timedOut"
          /\ \E cp \in jobs[j].savedInRun :
                cp.processedCount > callers.leftJob[j].processedCount

\* A step in which POST jobs/whop/backfill/<job> was handled.
Started(j) == callers'.runs[j] # callers.runs[j]

\* C27: a backfill started while the breaker is open is rejected by the
\* gate before any work: the job throws service unavailable, reads, writes
\* and clears no checkpoint, acquires no RateLimiter slot and makes no call,
\* and the breaker, the store and the checkpoints stay as they were; the
\* gate is evaluated on every invocation, so a run started while the
\* breaker is not open is admitted.
C27_RejectBeforeWork ==
    [][\A j \in JobTypes :
          (Started(j) /\ jobs'[j].exit # "unauthorized") =>
              /\ gate'.operation = "backfill"
              /\ gate'.result.allowed <=> (WhopState # "open")
              /\ jobs'[j].exit = "unavailable" <=> (WhopState = "open")
              /\ WhopState = "open" =>
                    /\ jobs'[j].pc = "thrown"
                    /\ jobs'[j].cpAtStart = {}
                    /\ jobs'[j].savedInRun = {}
                    /\ callers'.awaits[j] = 0
                    /\ UNCHANGED <<checkpoints, cpLog, calls, breaker, breakerCreated>>
                    /\ UNCHANGED <<dlq, maxSize, nextEventId, alertEmitted>>
                    /\ UNCHANGED LimiterQueue]_vars

\* A second run of a job was rejected while the checkpoint of its first
\* run, which a failed call had ended, was in place.
C27_Witness ==
    \E j \in JobTypes :
        /\ jobs[j].exit = "unavailable"
        /\ WhopState = "open"
        /\ callers.runs[j] = 2
        /\ GetLastCheckpoint(checkpoints, j) # {}
        /\ \E c \in Calls : calls[c].pc = "failed"

\* A step in which the third signal in a row reached onRateLimitDetected().
PauseTriggered ==
    /\ consecutiveRateLimits + 1 = maxConsecutiveRateLimits
    /\ consecutiveRateLimits' = 0
    /\ UNCHANGED <<released, nextTicket>>

\* C31: the pause is additive and bounded. A pause triggered at time t sets
\* pauseUntil to exactly t + PauseDelay whatever pauses came before;
\* pauseUntil never exceeds now + PauseDelay; and a step that is neither an
\* acquire() nor a release of the dispatch loop (onRateLimitDetected() among
\* them) never moves pauseUntil to an earlier time.
C31_PauseAdditive ==
    /\ [](pauseUntil <= now + PauseDelay)
    /\ [][PauseTriggered => pauseUntil' = now + PauseDelay]_vars
    /\ [][UNCHANGED <<released, nextTicket>> => pauseUntil' >= pauseUntil]_vars

\* A pause is in force that was set after time had passed, while the loop
\* was suspended holding a request, and two more signals have come since.
C31_Witness ==
    /\ now > StartTime
    /\ pauseUntil = now + PauseDelay
    /\ pauseSet = pauseUntil
    /\ isProcessing
    /\ consecutiveRateLimits = maxConsecutiveRateLimits - 1

\* A step in which a run of job j passed the gate and read its checkpoint.
RunAdmitted(j) ==
    /\ jobs[j].pc # "awaiting"
    /\ jobs'[j] # jobs[j]
    /\ jobs'[j].exit \notin {"unauthorized", "unavailable"}

FetchStarts(j) == jobs'[j].pc = "awaiting" /\ jobs'[j] # jobs[j]

\* C33: a run is bounded and terminates. A page is asked for only while
\* the count is below maxRecords, the page is at most maxPages and the
\* deadline has not elapsed; each page that comes back ends the run or
\* moves it to the next page, so a run asks for at most maxPages pages; a
\* count at or above maxRecords, a page above maxPages or an elapsed
\* deadline stops the loop at once; and when every call returns or raises
\* every run ends.
C33_BoundedTermination ==
    /\ [][\A j \in JobTypes :
            FetchStarts(j) =>
                /\ jobs'[j].processedCount < maxRecords
                /\ jobs'[j].page <= maxPages
                /\ now - jobs'[j].startTime < maxProcessingTicks]_vars
    /\ [][\A j \in JobTypes :
            (jobs[j].pc = "awaiting" /\ jobs'[j] # jobs[j]) =>
                \/ jobs'[j].pc \in {"returned", "thrown"}
                \/ jobs'[j].page = jobs[j].page + 1]_vars
    /\ [](\A j \in JobTypes : jobs[j].pc = "awaiting" => jobs[j].page \in 1..maxPages)
    /\ [](\A count \in 0..(maxRecords + MaxPageSize), page \in 1..(maxPages + 1),
            elapsed \in 0..(maxProcessingTicks + 1) :
              (count >= maxRecords \/ page > maxPages \/ elapsed >= maxProcessingTicks)
                  => ~LoopContinues(count, page, now, now + elapsed))
    /\ \A j \in JobTypes :
          (jobs[j].pc = "awaiting") ~> (jobs[j].pc \in {"returned", "thrown"})

\* A run returned after maxPages pages, below its record limit.
C33_Witness ==
    \E j \in JobTypes :
        /\ jobs[j].pc = "returned"
        /\ jobs[j].page = maxPages + 1
        /\ jobs[j].processedCount < maxRecords
        /\ jobs[j].fetched >= maxPages

\* C34: for a call that has received k answers 429, onRateLimitDetected()
\* was made min(k, maxRetries) times: once before each retry wait, not for
\* the 429 that exhausts the retries; onSuccess() was made once when an
\* attempt of the call succeeded and not at all otherwise.
C34_LimiterFeedback ==
    \A c \in Calls :
        /\ calls[c].detected = Min(calls[c].rejections, maxRetries)
        /\ calls[c].successes = IF calls[c].pc = "succeeded" THEN 1 ELSE 0
        /\ calls[c].pc = "backoff" => calls[c].detected = calls[c].attempt + 1

\* One call exhausted its retries on maxRetries + 1 answers 429, another
\* succeeded.
C34_Witness ==
    /\ \E c \in Calls :
          /\ calls[c].pc = "failed"
          /\ calls[c].rejections = maxRetries + 1
          /\ calls[c].detected = maxRetries
          /\ calls[c].successes = 0
    /\ \E c \in Calls :
          /\ calls[c].pc = "succeeded"
          /\ calls[c].successes = 1

\* A step in which canProcessAnalysis() was asked.
AnalysisAsked == gate' # gate /\ gate'.operation = "analysis"

\* C35: with the breaker open and the store at or above its maximum at the
\* same time, canProcessAnalysis() answers with the breaker's retryAfter of
\* 60, never the store's 300; whatever was decided before, the answer is
\* fixed by whether the breaker is open and whether the store is full, and
\* asking changes neither.
C35_GatePrecedence ==
    [][AnalysisAsked =>
          /\ (WhopState = "open" /\ Len(dlq) >= maxSize) =>
                gate'.result = [allowed |-> FALSE, retryAfter |-> {BreakerOpenRetryAfter}]
          /\ gate'.result.retryAfter = {DlqFullRetryAfter} => WhopState # "open"
          /\ gate'.result =
                CASE WhopState = "open" -> Decision(FALSE, {BreakerOpenRetryAfter})
                  [] WhopState # "open" /\ Len(dlq) >= maxSize ->
                        Decision(FALSE, {DlqFullRetryAfter})
                  [] OTHER -> Decision(TRUE, {})
          /\ UNCHANGED <<breaker, breakerCreated, dlq, maxSize>>]_vars

\* Asked with the breaker open over a full store, after an earlier answer.
C35_Witness ==
    /\ gate.operation = "analysis"
    /\ gate.result.retryAfter = {BreakerOpenRetryAfter}
    /\ WhopState = "open"
    /\ Len(dlq) >= maxSize
    /\ Len(dlq) > 1

\* The calls the breaker admitted, and those that failed in this step.
Admitted == {c \in Calls : calls[c].pc \notin {"new", "rejected"}}
FailedInStep == {c \in Calls : calls'[c].pc = "failed" /\ calls[c].pc # "failed"}

\* The breaker has not reset its statistics yet (it does when a trial call,
\* one fired in halfOpen, succeeds and closes it).
StatsKept == ~\E c \in Calls : calls[c].firedIn = "halfOpen" /\ calls[c].pc = "succeeded"

RemoveCalled == removeLog'.id # 0 /\ now' = now

\* C37: no two stored entries have the same id; removeEvent(id) on a store
\* that holds the id returns true and takes out that entry alone, the
\* others keeping their order, and on a store that does not hold it returns
\* false and leaves the store as it was.
C37_UniqueIds ==
    /\ [](\A i, j \in DOMAIN dlq : dlq[i].id = dlq[j].id => i = j)
    /\ [][RemoveCalled =>
            IF removeLog'.id \in Ids(dlq)
            THEN /\ removeLog'.result
                 /\ Len(dlq') = Len(dlq) - 1
                 /\ dlq' = SelectSeq(dlq, LAMBDA e : e.id # removeLog'.id)
            ELSE /\ ~removeLog'.result
                 /\ dlq' = dlq]_vars

\* removeEvent took an entry out from between two others after an upsert
\* and an eviction had happened.
C37_Witness ==
    /\ removeLog.result
    /\ removeLog.id \notin Ids(dlq)
    /\ Len(dlq) >= 2
    /\ dlq[1].id < removeLog.id
    /\ dlq[2].id > removeLog.id
    /\ dlq[1].id > 1

\* C38: a run that returned with the message 'Backfill completed' left its
\* loop on an empty page, not on the deadline, the page cap or the record cap.
C38_CompletedMeansEmptyPage ==
    \A j \in JobTypes :
        (jobs[j].pc = "returned" /\ jobs[j].message = "Backfill completed")
            => jobs[j].exit = "noMoreData"

\* Request r saved a checkpoint in the step: only the save is followed by page++.
SavedInStep(r) == runs'[r].page = runs[r].page + 1

\* C39: with two requests for the same job in flight, a save never stores a
\* processedCount below the one the save before it stored, and a request
\* that was awaiting a page when the other cleared the checkpoint does not
\* save into the cleared slot.
C39_CheckpointNotCorrupted ==
    [][/\ (cpLog[OverlapJob].op = "save" /\ cpLog'[OverlapJob].op = "save")
            => cpLog'[OverlapJob].processedCount >= cpLog[OverlapJob].processedCount
       /\ \A r \in Requests :
            (SavedInStep(r) /\ OverlapJob \notin DOMAIN checkpoints) => ~runs[r].stale]_vars

====
